---- MODULE Spec2Model ----
(***************************************************************************)
(* A model of src/generator_to_s3.py: the record factory (make_row), the   *)
(* key builder (make_key), the upload client with its retry loop           *)
(* (upload_bytes_to_s3), the local mirror (maybe_write_local_copy) and the *)
(* driver loop of main.                                                    *)
(*                                                                         *)
(* Strings are sequences of tokens; the separator "/" is a token of its    *)
(* own.  Money is an integer number of cents.                              *)
(***************************************************************************)
EXTENDS Integers, Sequences, FiniteSets, TLC

VARIABLES
    mode,          \* "main": the driver of main runs; "call": one direct call of
                   \* upload_bytes_to_s3; "key": calls of make_key; "row": calls of make_row
    pc,            \* the position of the running code
    outdir,        \* args.outdir is set
    partition,     \* args.partition
    batch,         \* the number of the driver iteration (1-based)
    filename,      \* main's local filename
    key,           \* main's local key
    retries,       \* upload_bytes_to_s3's parameter retries
    attempt,       \* upload_bytes_to_s3's local attempt
    outcomes,      \* the outcome of every put_object call of the current upload call
    sleeps,        \* the delay of every time.sleep call of the current upload call
    uploadStatus,  \* "idle", "active", "returned" or "raised": the current upload call
    exc,           \* the exception in flight or handled, NoExc when none
    raisedAt,      \* the position at which exc was raised
    bucket,        \* the keys of the objects the bucket holds
    uploaded,      \* the keys whose upload_bytes_to_s3 call returned normally
    localFiles,    \* the names of the files under outdir
    stdout,        \* the lines printed to the standard output
    stderr,        \* the lines printed to the error stream
    exitCode,      \* the exit status of the process, -1 while it runs
    events,        \* the steps of the driver loop completed, in order, as <<step, batch>>
    keyCall,       \* a call of make_key: its arguments and result
    rowCall        \* a call of make_row: its random draws and result

vars == <<mode, pc, outdir, partition, batch, filename, key, retries, attempt,
          outcomes, sleeps, uploadStatus, exc, raisedAt, bucket, uploaded,
          localFiles, stdout, stderr, exitCode, events, keyCall, rowCall>>

driverVars == <<pc, outdir, partition, batch, filename, key, retries, attempt,
                outcomes, sleeps, uploadStatus, exc, raisedAt, bucket, uploaded,
                localFiles, stdout, stderr, exitCode, events>>

(***************************************************************************)
(* Bounds of the model.                                                    *)
(***************************************************************************)
MaxBatches == 2
MaxRetries == 4
MaxPrefixLen == 3

(***************************************************************************)
(* Exceptions.  A BotoCoreError or a ClientError may be transient          *)
(* (throttling, a network blip) or permanent (access denied); "Exception"  *)
(* is any other subclass of Exception (OSError, TypeError, ...);           *)
(* KeyboardInterrupt derives from BaseException only.                      *)
(***************************************************************************)
NoExc == [cls |-> "none", transient |-> FALSE]
Ok == [cls |-> "ok", transient |-> FALSE]
KeyboardInterrupt == [cls |-> "KeyboardInterrupt", transient |-> FALSE]
OtherException == [cls |-> "Exception", transient |-> FALSE]
StorageErrors == [cls : {"BotoCoreError", "ClientError"}, transient : BOOLEAN]
PutOutcomes == {Ok, OtherException, KeyboardInterrupt} \cup StorageErrors

Min(a, b) == IF a < b THEN a ELSE b

(***************************************************************************)
(* make_key (Key Builder).  now is the UTC clock reading of line 102.      *)
(***************************************************************************)
EndsWithSlash(s) == Len(s) > 0 /\ s[Len(s)] = "/"

\* a variant: the separator is appended whatever the prefix ends with
NormalizePrefix_always(prefix) == prefix \o <<"/">>

NormalizePrefix(prefix) ==
    IF ~EndsWithSlash(prefix) THEN prefix \o <<"/">> ELSE prefix

make_key(prefix, fname, part, now) ==
    IF ~part
    THEN NormalizePrefix(prefix) \o fname
    ELSE NormalizePrefix(prefix)
           \o <<"date=", now.date, "/", "hour=", now.hour, "/">> \o fname

(***************************************************************************)
(* upload_bytes_to_s3 (Upload Client): the except clause, the test that    *)
(* ends the retries, and the backoff delay.                                *)
(***************************************************************************)
DefaultRetries == 3

\* variants: except Exception, and a bare except
Caught_any(e) == e.cls \in {"BotoCoreError", "ClientError", "Exception"}
Caught_bare(e) == TRUE

Caught(e) == e.cls \in {"BotoCoreError", "ClientError"}

\* variants: attempt >= retries, and attempt > retries + 1
Exhausted_early(a, r) == a >= r
Exhausted_late(a, r) == a > r + 1

Exhausted(a, r) == a > r

\* a variant: no cap
Backoff_uncapped(a) == 2 ^ a

Backoff(a) == Min(2 ^ a, 8)

(***************************************************************************)
(* main: the arguments' defaults, the order of the steps of one iteration, *)
(* and the two except clauses.                                             *)
(***************************************************************************)
DefaultPrefix == <<"Data", "/", "transactions">>

Clock == [date |-> "2026-11-06", hour |-> "08"]

MakeFilename(n) == <<"transactions_", ToString(n), ".csv">>

\* variants: the mirror is written before the upload; the success line is printed
\* before the mirror is written
AfterStep_mirrorFirst(p) ==
    CASE p = "build"  -> "name"
      [] p = "name"   -> "key"
      [] p = "key"    -> "mirror"
      [] p = "mirror" -> "upload"
      [] p = "upload" -> "log"
      [] p = "log"    -> "sleep"
      [] p = "sleep"  -> "build"

AfterStep_logFirst(p) ==
    CASE p = "build"  -> "name"
      [] p = "name"   -> "key"
      [] p = "key"    -> "upload"
      [] p = "upload" -> "log"
      [] p = "log"    -> "mirror"
      [] p = "mirror" -> "sleep"
      [] p = "sleep"  -> "build"

AfterStep(p) ==
    CASE p = "build"  -> "name"
      [] p = "name"   -> "key"
      [] p = "key"    -> "upload"
      [] p = "upload" -> "mirror"
      [] p = "mirror" -> "log"
      [] p = "log"    -> "sleep"
      [] p = "sleep"  -> "build"

IsKeyboardInterrupt(e) == e.cls = "KeyboardInterrupt"

IsException(e) == e.cls \in {"BotoCoreError", "ClientError", "Exception"}

UserExitStatus == 0

\* a variant: sys.exit(0)
FatalExitStatus_zero == UserExitStatus

FatalExitStatus == 1

Line(kind, k, e) == [line |-> kind, key |-> k, exc |-> e]

Banner == Line("banner", <<>>, NoExc)
LocalNote == Line("local", <<>>, NoExc)
OkLine(k) == Line("OK", k, NoExc)
Goodbye == Line("Stopped by user.", <<>>, NoExc)
ErrorLine(e) == Line("ERROR", <<>>, e)

(***************************************************************************)
(* make_row (Record Factory).  An amount is a number of thousandths of a   *)
(* dollar as drawn, and a number of cents once rounded; r is the draw of   *)
(* random.random() in hundredths.                                          *)
(***************************************************************************)
REGIONS == {"US-EAST", "US-WEST", "US-CENTRAL"}
MERCHANTS == {"AlphaShop", "BetaMart", "GammaFoods", "DeltaRide", "ElectroMart"}
PAYMENTS == {"CARD", "WALLET", "BANK_TRANSFER", "UPI"}
STATUSES == {"APPROVED", "DECLINED", "REFUNDED"}

CSV_HEADERS_11 ==
    <<"TXN_ID", "TXN_TS_UTC", "REGION", "MERCHANT", "CUSTOMER_ID", "PAYMENT_METHOD",
      "CURRENCY", "AMOUNT_USD", "STATUS", "IS_REFUND", "INGESTED_AT">>

MinAmount == 1000
MaxAmount == 250000
ApprovedBelow == 85
DeclinedBelow == 95

DigitChars == <<"0", "1", "2", "3", "4", "5", "6", "7", "8", "9">>

RECURSIVE Digits(_)
Digits(n) ==
    IF n < 10 THEN <<DigitChars[n + 1]>>
    ELSE Digits(n \div 10) \o <<DigitChars[(n % 10) + 1]>>

\* round(x, 2) of a draw in thousandths: the nearest number of cents
Round2(m) == (m + 5) \div 10

\* f"{amount:.2f}" of a number of cents
Fmt2(c) ==
    LET a == IF c < 0 THEN -c ELSE c
    IN  (IF c < 0 THEN <<"-">> ELSE <<>>)
          \o Digits(a \div 100) \o <<".">>
          \o <<DigitChars[((a % 100) \div 10) + 1], DigitChars[(a % 10) + 1]>>

\* a variant: the amount of a refund is negated
Policy_negatedRefund(r, amount) ==
    IF r < ApprovedBelow
    THEN [status |-> "APPROVED", is_refund |-> "false", amount |-> amount]
    ELSE IF r < DeclinedBelow
    THEN [status |-> "DECLINED", is_refund |-> "false", amount |-> 0]
    ELSE [status |-> "REFUNDED", is_refund |-> "true", amount |-> -amount]

\* the status and refund logic of lines 50-63
Policy(r, amount) ==
    IF r < ApprovedBelow
    THEN [status |-> "APPROVED", is_refund |-> "false", amount |-> amount]
    ELSE IF r < DeclinedBelow
    THEN [status |-> "DECLINED", is_refund |-> "false", amount |-> 0]
    ELSE [status |-> "REFUNDED", is_refund |-> "true", amount |-> amount]

make_row(d) ==
    LET p == Policy(d.r, Round2(d.amount))
    IN  <<d.txn_id, d.ts_utc, d.region, d.merchant, <<"CUST-">> \o Digits(d.customer),
          d.pay_method, "USD", Fmt2(p.amount), p.status, p.is_refund, d.ingested_at>>

\* the values the sources of randomness and the clock are drawn from
Uuids == {"uuid-1", "uuid-2"}
Timestamps == {"2026-11-06 08:15:59", "2026-11-06 08:16:00"}
CustomerDraws == {100000, 999999}
AmountDraws == {MinAmount, 1004, 10496, 123456, 249996, MaxAmount}
RDraws == {0, ApprovedBelow - 1, ApprovedBelow, DeclinedBelow - 1, DeclinedBelow, 99}

RowDraws ==
    [txn_id : Uuids, ts_utc : Timestamps, region : REGIONS, merchant : MERCHANTS,
     customer : CustomerDraws, pay_method : PAYMENTS, amount : AmountDraws,
     r : RDraws, ingested_at : Timestamps]

(***************************************************************************)
(* The arguments make_key is called with.                                  *)
(***************************************************************************)
Alphabet == {"a", "b", "/"}
Strs(n) == UNION {[1..k -> Alphabet] : k \in 0..n}
Filenames == {<<"f.csv">>, MakeFilename(1)}
Clocks == {Clock, [date |-> "2026-12-31", hour |-> "23"]}

(***************************************************************************)
(* Initial states.                                                         *)
(***************************************************************************)
NoKeyCall == [prefix |-> <<>>, filename |-> <<>>, partition |-> FALSE,
              now |-> Clock, done |-> FALSE, result |-> <<>>]

NoRowCall == [done |-> FALSE, draws |-> <<>>, row |-> <<>>]

DriverIdle ==
    /\ pc = "done"
    /\ outdir = FALSE
    /\ partition = FALSE
    /\ batch = 1
    /\ filename = <<>>
    /\ key = <<>>
    /\ retries = DefaultRetries
    /\ attempt = 0
    /\ outcomes = <<>>
    /\ sleeps = <<>>
    /\ uploadStatus = "idle"
    /\ exc = NoExc
    /\ raisedAt = "none"
    /\ bucket = {}
    /\ uploaded = {}
    /\ localFiles = {}
    /\ stdout = <<>>
    /\ stderr = <<>>
    /\ exitCode = -1
    /\ events = <<>>

\* main up to the try statement: the arguments are parsed and the banner is printed
Init ==
    /\ mode = "main"
    /\ pc = "build"
    /\ outdir \in BOOLEAN
    /\ partition \in BOOLEAN
    /\ batch = 1
    /\ filename = <<>>
    /\ key = <<>>
    /\ retries = DefaultRetries
    /\ attempt = 0
    /\ outcomes = <<>>
    /\ sleeps = <<>>
    /\ uploadStatus = "idle"
    /\ exc = NoExc
    /\ raisedAt = "none"
    /\ bucket = {}
    /\ uploaded = {}
    /\ localFiles = {}
    /\ stdout = IF outdir THEN <<Banner, LocalNote>> ELSE <<Banner>>
    /\ stderr = <<>>
    /\ exitCode = -1
    /\ events = <<>>
    /\ keyCall = NoKeyCall
    /\ rowCall = NoRowCall

\* one call upload_bytes_to_s3(s3, bucket, key, content, retries)
InitUpload ==
    /\ mode = "call"
    /\ pc = "upload"
    /\ outdir = FALSE
    /\ partition = FALSE
    /\ batch = 1
    /\ filename = MakeFilename(1)
    /\ key = make_key(DefaultPrefix, MakeFilename(1), FALSE, Clock)
    /\ retries \in 0..MaxRetries
    /\ attempt = 0
    /\ outcomes = <<>>
    /\ sleeps = <<>>
    /\ uploadStatus = "idle"
    /\ exc = NoExc
    /\ raisedAt = "none"
    /\ bucket = {}
    /\ uploaded = {}
    /\ localFiles = {}
    /\ stdout = <<>>
    /\ stderr = <<>>
    /\ exitCode = -1
    /\ events = <<>>
    /\ keyCall = NoKeyCall
    /\ rowCall = NoRowCall

(***************************************************************************)
(* How a step of the try block ends: it completes, or it raises.  In a     *)
(* direct call of upload_bytes_to_s3 the call's caller is outside the      *)
(* model and the run ends with the call.                                   *)
(***************************************************************************)
StepDone(step) ==
    /\ pc' = IF mode = "main" THEN AfterStep(step) ELSE "done"
    /\ events' = IF mode = "main" THEN Append(events, <<step, batch>>) ELSE events
    /\ UNCHANGED <<exc, raisedAt>>

StepRaises(e) ==
    /\ pc' = IF mode = "main" THEN "except" ELSE "done"
    /\ exc' = e
    /\ raisedAt' = pc
    /\ UNCHANGED events

(***************************************************************************)
(* The driver loop of main, lines 164-179.                                 *)
(***************************************************************************)
\* content = build_csv_bytes(args.batch_size)
BuildBatch ==
    /\ mode = "main" /\ pc = "build"
    /\ \/ StepDone("build")
       \/ StepRaises(OtherException)
    /\ UNCHANGED <<mode, outdir, partition, batch, filename, key, retries, attempt,
                   outcomes, sleeps, uploadStatus, bucket, uploaded, localFiles,
                   stdout, stderr, exitCode, keyCall, rowCall>>

\* ts = ...; filename = f"transactions_{ts}_{uuid4().hex[:6]}.csv"
NameFile ==
    /\ mode = "main" /\ pc = "name"
    /\ \/ /\ filename' = MakeFilename(batch)
          /\ pc' = AfterStep("name")
          /\ UNCHANGED <<exc, raisedAt>>
       \/ /\ StepRaises(OtherException)
          /\ UNCHANGED filename
    /\ UNCHANGED <<mode, outdir, partition, batch, key, retries, attempt, outcomes,
                   sleeps, uploadStatus, bucket, uploaded, localFiles, stdout,
                   stderr, exitCode, events, keyCall, rowCall>>

\* key = make_key(args.prefix, filename, args.partition)
MakeKey ==
    /\ mode = "main" /\ pc = "key"
    /\ \/ /\ key' = make_key(DefaultPrefix, filename, partition, Clock)
          /\ StepDone("key")
       \/ /\ StepRaises(OtherException)
          /\ UNCHANGED key
    /\ UNCHANGED <<mode, outdir, partition, batch, filename, retries, attempt,
                   outcomes, sleeps, uploadStatus, bucket, uploaded, localFiles,
                   stdout, stderr, exitCode, keyCall, rowCall>>

(***************************************************************************)
(* upload_bytes_to_s3, lines 106-119.                                      *)
(***************************************************************************)
\* the call is entered: attempt = 0
UploadEnter ==
    /\ pc = "upload"
    /\ attempt' = 0
    /\ outcomes' = <<>>
    /\ sleeps' = <<>>
    /\ uploadStatus' = "active"
    /\ pc' = "put"
    /\ UNCHANGED <<mode, outdir, partition, batch, filename, key, retries, exc,
                   raisedAt, bucket, uploaded, localFiles, stdout, stderr, exitCode,
                   events, keyCall, rowCall>>

\* One turn of the while loop: put_object, then return, or the except clause up to
\* its call of time.sleep, or an exception the clause does not catch (a user
\* interrupt among them).  A put_object that fails may or may not have stored the
\* object.
PutObject ==
    /\ pc = "put"
    /\ \E o \in PutOutcomes, stored \in BOOLEAN :
          /\ o = Ok => stored
          /\ outcomes' = Append(outcomes, o)
          /\ bucket' = IF stored THEN bucket \cup {key} ELSE bucket
          /\ IF o = Ok
             THEN /\ uploadStatus' = "returned"
                  /\ uploaded' = uploaded \cup {key}
                  /\ StepDone("upload")
                  /\ UNCHANGED <<attempt, sleeps>>
             ELSE IF Caught(o)
             THEN /\ attempt' = attempt + 1
                  /\ uploaded' = uploaded
                  /\ IF Exhausted(attempt + 1, retries)
                     THEN /\ uploadStatus' = "raised"
                          /\ StepRaises(o)
                          /\ UNCHANGED sleeps
                     ELSE /\ sleeps' = Append(sleeps, Backoff(attempt + 1))
                          /\ pc' = "backoff"
                          /\ UNCHANGED <<uploadStatus, exc, raisedAt, events>>
             ELSE /\ uploadStatus' = "raised"
                  /\ StepRaises(o)
                  /\ UNCHANGED <<attempt, sleeps, uploaded>>
    /\ UNCHANGED <<mode, outdir, partition, batch, filename, key, retries,
                   localFiles, stdout, stderr, exitCode, keyCall, rowCall>>

\* time.sleep(min(2 ** attempt, 8)) returns
BackoffSleep ==
    /\ pc = "backoff"
    /\ pc' = "put"
    /\ UNCHANGED <<mode, outdir, partition, batch, filename, key, retries, attempt,
                   outcomes, sleeps, uploadStatus, exc, raisedAt, bucket, uploaded,
                   localFiles, stdout, stderr, exitCode, events, keyCall, rowCall>>

(***************************************************************************)
(* maybe_write_local_copy, lines 122-127.  A failing write (makedirs, open *)
(* or f.write) may or may not leave a file behind.                         *)
(***************************************************************************)
MirrorWrite ==
    /\ mode = "main" /\ pc = "mirror"
    /\ IF ~outdir
       THEN /\ StepDone("mirror")
            /\ UNCHANGED localFiles
       ELSE \/ /\ localFiles' = localFiles \cup {filename}
               /\ StepDone("mirror")
            \/ \E left \in BOOLEAN :
                 /\ localFiles' = IF left THEN localFiles \cup {filename} ELSE localFiles
                 /\ StepRaises(OtherException)
    /\ UNCHANGED <<mode, outdir, partition, batch, filename, key, retries, attempt,
                   outcomes, sleeps, uploadStatus, bucket, uploaded, stdout, stderr,
                   exitCode, keyCall, rowCall>>

\* print(f"[OK] Uploaded ... s3://{args.bucket}/{key}")
LogSuccess ==
    /\ mode = "main" /\ pc = "log"
    /\ \/ /\ stdout' = Append(stdout, OkLine(key))
          /\ StepDone("log")
       \/ /\ StepRaises(OtherException)
          /\ UNCHANGED stdout
    /\ UNCHANGED <<mode, outdir, partition, batch, filename, key, retries, attempt,
                   outcomes, sleeps, uploadStatus, bucket, uploaded, localFiles,
                   stderr, exitCode, keyCall, rowCall>>

\* time.sleep(args.interval) returns and the while loop starts its next turn, or
\* it raises (ValueError on a negative interval)
IntervalSleep ==
    /\ mode = "main" /\ pc = "sleep"
    /\ \/ /\ batch < MaxBatches
          /\ StepDone("sleep")
          /\ batch' = batch + 1
       \/ /\ StepRaises(OtherException)
          /\ UNCHANGED batch
    /\ UNCHANGED <<mode, outdir, partition, filename, key, retries, attempt, outcomes,
                   sleeps, uploadStatus, bucket, uploaded, localFiles, stdout, stderr,
                   exitCode, keyCall, rowCall>>

(***************************************************************************)
(* A user interrupt: KeyboardInterrupt is raised at whatever the code is   *)
(* doing outside the try statement of upload_bytes_to_s3 (inside it, the   *)
(* interrupt is an outcome of put_object).  The time.sleep of the backoff  *)
(* runs in the except clause, which no try statement of the function       *)
(* covers.  An interrupted mirror write may or may not leave a file.       *)
(***************************************************************************)
RunningPcs ==
    {"build", "name", "key", "upload", "put", "backoff", "mirror", "log", "sleep"}

Interrupt ==
    /\ pc \in RunningPcs \ {"put"}
    /\ StepRaises(KeyboardInterrupt)
    /\ uploadStatus' = IF pc = "backoff" THEN "raised" ELSE uploadStatus
    /\ \E left \in BOOLEAN :
          /\ left => (pc = "mirror" /\ outdir)
          /\ localFiles' = IF left THEN localFiles \cup {filename} ELSE localFiles
    /\ UNCHANGED <<mode, outdir, partition, batch, filename, key, retries, attempt,
                   outcomes, sleeps, bucket, uploaded, stdout, stderr, exitCode,
                   keyCall, rowCall>>

(***************************************************************************)
(* The except clauses of main, lines 180-184.                              *)
(***************************************************************************)
\* except KeyboardInterrupt: print("\nStopped by user."); main returns
HandleKeyboardInterrupt ==
    /\ mode = "main" /\ pc = "except"
    /\ IsKeyboardInterrupt(exc)
    /\ stdout' = Append(stdout, Goodbye)
    /\ exitCode' = UserExitStatus
    /\ pc' = "exited"
    /\ UNCHANGED <<mode, outdir, partition, batch, filename, key, retries, attempt,
                   outcomes, sleeps, uploadStatus, exc, raisedAt, bucket, uploaded,
                   localFiles, stderr, events, keyCall, rowCall>>

\* except Exception as e: print(f"\n[ERROR] {e}", file=sys.stderr); sys.exit(1)
HandleException ==
    /\ mode = "main" /\ pc = "except"
    /\ ~IsKeyboardInterrupt(exc)
    /\ IsException(exc)
    /\ stderr' = Append(stderr, ErrorLine(exc))
    /\ exitCode' = FatalExitStatus
    /\ pc' = "exited"
    /\ UNCHANGED <<mode, outdir, partition, batch, filename, key, retries, attempt,
                   outcomes, sleeps, uploadStatus, exc, raisedAt, bucket, uploaded,
                   localFiles, stdout, events, keyCall, rowCall>>

Next ==
    \/ BuildBatch
    \/ NameFile
    \/ MakeKey
    \/ UploadEnter
    \/ PutObject
    \/ BackoffSleep
    \/ MirrorWrite
    \/ LogSuccess
    \/ IntervalSleep
    \/ Interrupt
    \/ HandleKeyboardInterrupt
    \/ HandleException

Spec == Init /\ [][Next]_vars

NextUpload ==
    \/ UploadEnter
    \/ PutObject
    \/ BackoffSleep
    \/ Interrupt

SpecUpload == InitUpload /\ [][NextUpload]_vars

(***************************************************************************)
(* Calls of make_key on arguments drawn from the bounded sets.             *)
(***************************************************************************)
InitKey ==
    /\ mode = "key"
    /\ DriverIdle
    /\ keyCall \in [prefix : Strs(MaxPrefixLen), filename : Filenames,
                    partition : BOOLEAN, now : Clocks, done : {FALSE},
                    result : {<<>>}]
    /\ rowCall = NoRowCall

CallMakeKey ==
    /\ mode = "key"
    /\ ~keyCall.done
    /\ keyCall' = [keyCall EXCEPT
                     !.done = TRUE,
                     !.result = make_key(keyCall.prefix, keyCall.filename,
                                         keyCall.partition, keyCall.now)]
    /\ UNCHANGED <<mode, driverVars, rowCall>>

NextKey == CallMakeKey

SpecKey == InitKey /\ [][NextKey]_vars

(***************************************************************************)
(* A call of make_row, on every outcome of the random draws.               *)
(***************************************************************************)
InitRow ==
    /\ mode = "row"
    /\ DriverIdle
    /\ keyCall = NoKeyCall
    /\ rowCall = NoRowCall

CallMakeRow ==
    /\ mode = "row"
    /\ ~rowCall.done
    /\ \E d \in RowDraws :
          rowCall' = [done |-> TRUE, draws |-> d, row |-> make_row(d)]
    /\ UNCHANGED <<mode, driverVars, keyCall>>

NextRow == CallMakeRow

SpecRow == InitRow /\ [][NextRow]_vars

(***************************************************************************)
(* Properties of upload_bytes_to_s3, checked under SpecUpload.             *)
(***************************************************************************)
TransientErrors == {e \in StorageErrors : e.transient}

AllTransient(seq) == \A i \in 1..Len(seq) : seq[i] \in TransientErrors

LastOutcome == outcomes[Len(outcomes)]

\* C1: when every put_object call fails with a transient storage error (and no
\* user interrupt arrives), the call makes exactly retries + 1 attempts and then
\* raises the failure of the last attempt: it never returns normally and never
\* makes another attempt.
C1_AllFailRaisesAfterRetriesPlusOne ==
    AllTransient(outcomes) =>
        /\ Len(outcomes) <= retries + 1
        /\ uploadStatus # "returned"
        /\ (uploadStatus = "raised" /\ exc # KeyboardInterrupt) =>
              /\ Len(outcomes) = retries + 1
              /\ exc = LastOutcome
        /\ Len(outcomes) = retries + 1 =>
              /\ uploadStatus = "raised"
              /\ exc = LastOutcome
              /\ pc \notin {"put", "backoff"}

C1_Witness ==
    /\ mode = "call"
    /\ retries = DefaultRetries
    /\ Len(outcomes) = 4
    /\ AllTransient(outcomes)
    /\ uploadStatus = "raised"
    /\ exc = LastOutcome

\* C2: when the first k-1 attempts fail transiently and the k-th succeeds
\* (k <= retries + 1), the call returns after exactly k attempts: the k-th attempt
\* is made (the call has neither returned nor raised before it), a success is the
\* last put_object call, and the call that returned raised nothing.
C2_SuccessAtKthAttemptReturns ==
    /\ \A i \in 1..Len(outcomes) : outcomes[i] = Ok => i = Len(outcomes)
    /\ uploadStatus = "returned" <=> (Len(outcomes) > 0 /\ LastOutcome = Ok)
    /\ uploadStatus = "returned" =>
          /\ Len(outcomes) <= retries + 1
          /\ exc = NoExc
          /\ pc \notin {"put", "backoff"}
          /\ key \in uploaded
          /\ key \in bucket
    /\ (uploadStatus = "active" /\ AllTransient(outcomes) /\ Len(outcomes) <= retries) =>
          /\ pc \in {"put", "backoff"}
          /\ exc = NoExc
    /\ (AllTransient(outcomes) /\ Len(outcomes) <= retries /\ exc # KeyboardInterrupt) =>
          uploadStatus \in {"idle", "active"}

C2_Witness ==
    /\ mode = "call"
    /\ retries = DefaultRetries
    /\ uploadStatus = "returned"
    /\ Len(outcomes) = 3
    /\ outcomes[1] \in TransientErrors
    /\ outcomes[2] \in TransientErrors
    /\ outcomes[3] = Ok

\* C6 as stated: whatever exception put_object raises, the call is retried up to
\* retries more times before the failure is propagated.
C6_EveryExceptionRetried ==
    (uploadStatus = "raised" /\ raisedAt = "put" /\ exc # KeyboardInterrupt) =>
        Len(outcomes) = retries + 1

\* C6 amended: every BotoCoreError and every ClientError put_object raises,
\* transient or not, is retried with backoff up to retries more times before it is
\* propagated; an exception of any other class is propagated at once, without a
\* retry or a backoff.
C6_StorageErrorsRetriedOthersPropagate ==
    /\ \A i \in 1..(Len(outcomes) - 1) : outcomes[i] \in StorageErrors
    /\ (uploadStatus = "raised" /\ raisedAt = "put") =>
          /\ exc = LastOutcome
          /\ exc \in StorageErrors =>
                /\ Len(outcomes) = retries + 1
                /\ Len(sleeps) = retries
          /\ exc \notin StorageErrors => Len(sleeps) = Len(outcomes) - 1
    /\ (Len(outcomes) > 0 /\ LastOutcome \in StorageErrors /\ Len(outcomes) <= retries
          /\ exc # KeyboardInterrupt) =>
          /\ pc = "backoff" \/ pc = "put"
          /\ uploadStatus = "active"
    /\ (Len(outcomes) > 0 /\ LastOutcome = OtherException) =>
          /\ uploadStatus = "raised"
          /\ exc = OtherException
          /\ pc \notin {"put", "backoff"}

C6_Witness ==
    /\ mode = "call"
    /\ retries = DefaultRetries
    /\ Len(outcomes) = 2
    /\ outcomes[1] = [cls |-> "ClientError", transient |-> FALSE]
    /\ outcomes[2] = OtherException
    /\ uploadStatus = "raised"

\* C7: the delay after the n-th failed attempt is min(2^n, 8) seconds (2, 4, 8,
\* 8, ...); a delay is taken only between two attempts: none after a successful
\* attempt, none after the failed attempt that is propagated.
C7_BackoffDelays ==
    /\ \A n \in 1..Len(sleeps) :
          sleeps[n] = (CASE n = 1 -> 2 [] n = 2 -> 4 [] OTHER -> 8)
    /\ pc \in {"put", "backoff"} => Len(sleeps) = Len(outcomes)
    /\ uploadStatus = "returned" => Len(sleeps) = Len(outcomes) - 1
    /\ (uploadStatus = "raised" /\ raisedAt = "put") => Len(sleeps) = Len(outcomes) - 1
    /\ (uploadStatus = "raised" /\ raisedAt = "backoff") => Len(sleeps) = Len(outcomes)

C7_Witness ==
    /\ mode = "call"
    /\ uploadStatus = "returned"
    /\ Len(outcomes) = 5
    /\ sleeps = <<2, 4, 8, 8>>

(***************************************************************************)
(* Properties of the driver loop of main, checked under Spec.              *)
(***************************************************************************)
StepOrder == <<"build", "key", "upload", "mirror", "log", "sleep">>

ExpectedEvent(i) == <<StepOrder[((i - 1) % 6) + 1], ((i - 1) \div 6) + 1>>

StepOfPc(p) ==
    CASE p \in {"name", "key"} -> "key"
      [] p \in {"upload", "put", "backoff"} -> "upload"
      [] OTHER -> p

OkLines == {i \in 1..Len(stdout) : stdout[i].line = "OK"}

KeyOf(n) == make_key(DefaultPrefix, MakeFilename(n), partition, Clock)

\* C3: within every iteration the steps complete in the order build, filename and
\* key, upload, local mirror, success line, sleep, and the next iteration's build
\* follows the sleep: a batch's mirror file exists only once its upload has
\* returned, and its success line only once upload and mirror have completed.
C3_StepsInOrder ==
    /\ \A i \in 1..Len(events) : events[i] = ExpectedEvent(i)
    /\ pc \in RunningPcs =>
          /\ StepOfPc(pc) = StepOrder[(Len(events) % 6) + 1]
          /\ batch = (Len(events) \div 6) + 1
    /\ \A n \in 1..batch :
          /\ MakeFilename(n) \in localFiles => KeyOf(n) \in uploaded
          /\ OkLine(KeyOf(n)) \in {stdout[i] : i \in 1..Len(stdout)} =>
                /\ KeyOf(n) \in uploaded
                /\ outdir => MakeFilename(n) \in localFiles
    /\ Cardinality(OkLines) = Cardinality({i \in 1..Len(events) : events[i][1] = "log"})

C3_Witness ==
    /\ mode = "main"
    /\ outdir
    /\ Len(events) = 9
    /\ pc = "mirror"
    /\ MakeFilename(1) \in localFiles
    /\ Len(outcomes) = 2

\* C4: an exception other than a user interrupt that surfaces inside the loop is
\* reported on the error stream and the process exits with status 1; from the
\* moment it surfaces no batch is built, no put_object is attempted, no success
\* line is printed, and nothing hides it.
C4_State ==
    /\ (exc \notin {NoExc, KeyboardInterrupt}) =>
          /\ pc \in {"except", "exited"}
          /\ exc \in StorageErrors \cup {OtherException}
          /\ exc \in StorageErrors =>
                (raisedAt = "put" /\ Len(outcomes) = retries + 1 /\ exc = LastOutcome)
          /\ raisedAt \in {"build", "name", "key", "put", "mirror", "log"} =>
                /\ <<"log", batch>> \notin {events[i] : i \in 1..Len(events)}
                /\ Cardinality(OkLines) = batch - 1
    /\ (pc = "exited" /\ exc # KeyboardInterrupt) =>
          /\ exitCode = 1
          /\ stderr = <<ErrorLine(exc)>>
          /\ exc # NoExc
    /\ pc # "exited" => exitCode = -1 /\ stderr = <<>>

C4_Step ==
    (exc \notin {NoExc, KeyboardInterrupt}) =>
        /\ exc' = exc
        /\ outcomes' = outcomes
        /\ events' = events
        /\ stdout' = stdout
        /\ bucket' = bucket
        /\ localFiles' = localFiles
        /\ pc' = "exited"

C4_FatalErrorReportedExitOne == [](C4_State) /\ [][C4_Step]_vars

C4_Witness ==
    /\ mode = "main"
    /\ pc = "exited"
    /\ batch = 2
    /\ raisedAt = "put"
    /\ exc \in StorageErrors
    /\ Len(outcomes) = 4
    /\ exitCode = 1
    /\ stderr = <<ErrorLine(exc)>>

\* C5: a user interrupt arriving at any step of the running loop, the interval
\* sleep, a backoff sleep and a put_object call included, ends the loop cleanly:
\* the goodbye line is printed, the error stream stays empty, the exit status is 0,
\* and the retry loop neither catches the interrupt nor makes another attempt.
C5_State ==
    /\ \A i \in 1..Len(outcomes) :
          outcomes[i] = KeyboardInterrupt =>
              /\ i = Len(outcomes)
              /\ exc = KeyboardInterrupt
              /\ raisedAt = "put"
              /\ uploadStatus = "raised"
    /\ exc = KeyboardInterrupt =>
          /\ pc \in {"except", "exited"}
          /\ raisedAt \in RunningPcs
          /\ stderr = <<>>
          /\ raisedAt \in {"put", "backoff"} => uploadStatus = "raised"
    /\ (pc = "exited" /\ exc = KeyboardInterrupt) =>
          /\ exitCode = 0
          /\ stdout[Len(stdout)] = Goodbye
          /\ Cardinality({i \in 1..Len(stdout) : stdout[i] = Goodbye}) = 1
    /\ (pc = "exited" /\ exitCode = 0) => exc = KeyboardInterrupt

C5_Step ==
    exc = KeyboardInterrupt =>
        /\ exc' = exc
        /\ outcomes' = outcomes
        /\ sleeps' = sleeps
        /\ events' = events
        /\ stderr' = stderr
        /\ pc' = "exited"

C5_InterruptExitsCleanly == [](C5_State) /\ [][C5_Step]_vars

C5_Witness ==
    /\ mode = "main"
    /\ pc = "exited"
    /\ exc = KeyboardInterrupt
    /\ raisedAt = "put"
    /\ Len(outcomes) = 3
    /\ exitCode = 0
    /\ stderr = <<>>

\* C10: there is no rollback and the bucket and the local mirror are related one
\* way only: every mirror file is of a batch whose upload returned, and objects and
\* files are never removed; a mirror write that fails after its upload leaves the
\* object in the bucket, prints no success line and ends in exit status 1; an
\* upload that fails leaves no mirror file of its batch.
C10_State ==
    /\ \A n \in 1..batch : MakeFilename(n) \in localFiles => KeyOf(n) \in uploaded
    /\ localFiles \subseteq {MakeFilename(n) : n \in 1..batch}
    /\ uploaded \subseteq bucket
    /\ (uploadStatus = "raised") => filename \notin localFiles
    /\ (uploadStatus \in {"active", "raised"}) => key \notin uploaded
    /\ (pc = "exited" /\ raisedAt = "mirror" /\ exc # KeyboardInterrupt) =>
          /\ key \in bucket
          /\ key \in uploaded
          /\ OkLine(key) \notin {stdout[i] : i \in 1..Len(stdout)}
          /\ exitCode = 1

C10_Step == bucket \subseteq bucket' /\ localFiles \subseteq localFiles'

C10_MirrorOnlyAfterUploadNoRollback == [](C10_State) /\ [][C10_Step]_vars

C10_Witness ==
    /\ mode = "main"
    /\ pc = "exited"
    /\ raisedAt = "mirror"
    /\ exc = OtherException
    /\ key \in bucket
    /\ filename \notin localFiles
    /\ exitCode = 1
    /\ batch = 2
    /\ MakeFilename(1) \in localFiles

(***************************************************************************)
(* Properties of make_key, checked under SpecKey.                          *)
(***************************************************************************)
\* the part of the key before the filename (and before the partition segments)
PrefixPart(kc) ==
    SubSeq(kc.result, 1,
           Len(kc.result) - Len(kc.filename) - (IF kc.partition THEN 6 ELSE 0))

EndsWithTwoSlashes(s) == Len(s) >= 2 /\ s[Len(s)] = "/" /\ s[Len(s) - 1] = "/"

KeyIdempotent(kc) ==
    ~EndsWithSlash(kc.prefix) =>
        kc.result = make_key(kc.prefix \o <<"/">>, kc.filename, kc.partition, kc.now)

\* C8 as stated: for every prefix the normalized prefix ends with a single
\* separator, the normalization is idempotent, and the key never has more than one
\* "/" between the prefix and the filename.
C8_SingleTrailingSeparator ==
    keyCall.done =>
        /\ EndsWithSlash(PrefixPart(keyCall))
        /\ ~EndsWithTwoSlashes(PrefixPart(keyCall))
        /\ KeyIdempotent(keyCall)

\* C8 amended: make_key appends one "/" to the prefix exactly when the prefix does
\* not end with "/" and never removes a separator: the normalized prefix always
\* ends with "/", with a single one unless the given prefix itself ends with "//";
\* the normalization is idempotent (p and p + "/" give the same key when p does not
\* end with "/"), and make_key puts at most one "/" of its own before the filename.
C8_SeparatorAppendedOnlyWhenAbsent ==
    keyCall.done =>
        LET np == PrefixPart(keyCall)
            p == keyCall.prefix
        IN  /\ EndsWithSlash(np)
            /\ EndsWithSlash(p) => np = p
            /\ ~EndsWithSlash(p) => np = p \o <<"/">>
            /\ EndsWithTwoSlashes(np) <=> EndsWithTwoSlashes(p)
            /\ KeyIdempotent(keyCall)
            /\ SubSeq(keyCall.result, Len(keyCall.result) - Len(keyCall.filename) + 1,
                      Len(keyCall.result)) = keyCall.filename
            /\ ~keyCall.partition => keyCall.result = np \o keyCall.filename

C8_Witness ==
    /\ keyCall.done
    /\ keyCall.prefix = <<"a", "/", "b">>
    /\ keyCall.filename = <<"f.csv">>
    /\ ~keyCall.partition
    /\ keyCall.result = <<"a", "/", "b", "/", "f.csv">>

(***************************************************************************)
(* Properties of make_row, checked under SpecRow.                          *)
(***************************************************************************)
Field(row, name) == row[CHOOSE i \in 1..Len(CSV_HEADERS_11) : CSV_HEADERS_11[i] = name]

IsDigit(ch) == \E d \in 1..10 : DigitChars[d] = ch

DigitVal(ch) == (CHOOSE d \in 1..10 : DigitChars[d] = ch) - 1

RECURSIVE ParseNat(_)
ParseNat(s) ==
    IF Len(s) = 0 THEN 0
    ELSE ParseNat(SubSeq(s, 1, Len(s) - 1)) * 10 + DigitVal(s[Len(s)])

\* digits, a point, two digits
IsAmountText(a) ==
    /\ Len(a) >= 4
    /\ a[Len(a) - 2] = "."
    /\ \A i \in 1..Len(a) : i # Len(a) - 2 => IsDigit(a[i])

CentsOf(a) ==
    ParseNat(SubSeq(a, 1, Len(a) - 3)) * 100 + ParseNat(SubSeq(a, Len(a) - 1, Len(a)))

\* C9: every record has the 11 fields of the header, in its order; currency is
\* USD; is_refund is "true" exactly when status is REFUNDED and "false" otherwise;
\* DECLINED has amount "0.00"; APPROVED and REFUNDED have the drawn amount, rounded
\* to cents, positive and within [1.00, 250.00], never negated.
C9_RecordFields ==
    rowCall.done =>
        LET row == rowCall.row
            d == rowCall.draws
            amount == Field(row, "AMOUNT_USD")
            status == Field(row, "STATUS")
        IN  /\ Len(row) = 11
            /\ Len(CSV_HEADERS_11) = 11
            /\ Field(row, "TXN_ID") = d.txn_id
            /\ Field(row, "TXN_TS_UTC") = d.ts_utc
            /\ Field(row, "REGION") \in REGIONS
            /\ Field(row, "MERCHANT") \in MERCHANTS
            /\ SubSeq(Field(row, "CUSTOMER_ID"), 1, 1) = <<"CUST-">>
            /\ Field(row, "PAYMENT_METHOD") \in PAYMENTS
            /\ Field(row, "CURRENCY") = "USD"
            /\ status \in STATUSES
            /\ Field(row, "IS_REFUND") \in {"true", "false"}
            /\ Field(row, "IS_REFUND") = "true" <=> status = "REFUNDED"
            /\ Field(row, "INGESTED_AT") = d.ingested_at
            /\ IsAmountText(amount)
            /\ status = "DECLINED" => amount = <<"0", ".", "0", "0">>
            /\ status \in {"APPROVED", "REFUNDED"} =>
                  /\ CentsOf(amount) >= 100
                  /\ CentsOf(amount) <= 25000
                  /\ CentsOf(amount) * 10 - d.amount \in -5..5

C9_Witness ==
    /\ rowCall.done
    /\ rowCall.draws.amount = 123456
    /\ Field(rowCall.row, "STATUS") = "REFUNDED"
    /\ Field(rowCall.row, "IS_REFUND") = "true"
    /\ Field(rowCall.row, "AMOUNT_USD") = <<"1", "2", "3", ".", "4", "6">>

====
